---- MODULE Spec2Model ----
(***************************************************************************)
(* MWZ Onboarding API (mwz_onboarding_api_node_js_express.js).             *)
(*                                                                         *)
(* An Express gateway that stores one JSON envelope per key in a GitHub    *)
(* repository: POST /save commits saves/<slug>.json, GET /load/:slug reads *)
(* it back, GET /health answers {ok:true}.                                 *)
(*                                                                         *)
(* Strings are sequences of one-character strings.  JSON values and        *)
(* JavaScript's undefined/null are records tagged by a field t.  A request *)
(* runs synchronously up to its first await; every await of a backend      *)
(* response is a separate step, so requests interleave at those points.    *)
(***************************************************************************)
EXTENDS Integers, Sequences, FiniteSets, TLC

VARIABLES
    received,  \* number of requests the server has received
    API_KEY,   \* configuration, line 22: "" when no shared secret is set
    store,     \* the repository branch: a set of [path, sha, content]
    commits,   \* number of commits the repository has accepted
    admitted,  \* number of requests that got past validation to a backend call
    inflight,  \* the requests awaiting a backend response
    last,      \* the most recent response this server sent, with its request
    given,     \* the key normaliser called on its own: the value it was given
    key        \* ... and the key it returned

server == <<received, API_KEY, store, commits, admitted, inflight, last>>
normaliser == <<given, key>>
vars == <<server, normaliser>>

\* ----- bounds of the model ------------------------------------------------
MaxRequests == 3   \* requests received over a run
MaxInFlight == 2   \* requests awaiting the backend at the same time
MaxLen == 3        \* length of the texts given to the key normaliser

\* ----- JavaScript values --------------------------------------------------
Undefined == [t |-> "undefined"]
Null == [t |-> "null"]
Str(s) == [t |-> "str", v |-> s]
Num(n) == [t |-> "num", v |-> n]
Bool(b) == [t |-> "bool", v |-> b]

\* JavaScript truthiness, as used by ||, ! and ?: in the source.
Truthy(v) ==
    CASE v.t = "undefined" -> FALSE
      [] v.t = "null" -> FALSE
      [] v.t = "str" -> v.v # <<>>
      [] v.t = "num" -> v.v # 0
      [] v.t = "bool" -> v.v
      [] OTHER -> TRUE

Digits == <<"0", "1", "2", "3", "4", "5", "6", "7", "8", "9">>

\* String(v) for the values the model sends (numbers are 0..9).
JsString(v) ==
    CASE v.t = "str" -> v.v
      [] v.t = "num" -> <<Digits[v.v + 1]>>
      [] v.t = "bool" -> IF v.v THEN <<"t", "r", "u", "e">>
                                ELSE <<"f", "a", "l", "s", "e">>
      [] v.t = "null" -> <<"n", "u", "l", "l">>
      [] OTHER -> <<"u", "n", "d", "e", "f", "i", "n", "e", "d">>

\* ----- slugify, lines 51-56 -----------------------------------------------
Uppers == <<"A", "B", "C", "D", "E", "F", "G", "H", "I", "J", "K", "L", "M",
            "N", "O", "P", "Q", "R", "S", "T", "U", "V", "W", "X", "Y", "Z">>
Lowers == <<"a", "b", "c", "d", "e", "f", "g", "h", "i", "j", "k", "l", "m",
            "n", "o", "p", "q", "r", "s", "t", "u", "v", "w", "x", "y", "z">>
Whitespace == {" ", "\t", "\n"}

Range(s) == {s[i] : i \in DOMAIN s}

IsAlnum(c) == c \in Range(Lowers) \cup Range(Digits)

LowerChar(c) ==
    IF c \in Range(Uppers)
    THEN Lowers[CHOOSE i \in DOMAIN Uppers : Uppers[i] = c]
    ELSE c

toLowerCase(s) == [i \in DOMAIN s |-> LowerChar(s[i])]

RECURSIVE TrimStart(_)
TrimStart(s) ==
    IF s # <<>> /\ Head(s) \in Whitespace THEN TrimStart(Tail(s)) ELSE s

RECURSIVE TrimEnd(_)
TrimEnd(s) ==
    IF s # <<>> /\ s[Len(s)] \in Whitespace
    THEN TrimEnd(SubSeq(s, 1, Len(s) - 1))
    ELSE s

trim(s) == TrimEnd(TrimStart(s))

\* .replace(/[^a-z0-9]+/g, '-'): every maximal run of other characters
\* becomes one hyphen.
RECURSIVE ReplaceRuns(_, _)
ReplaceRuns(s, inRun) ==
    IF s = <<>> THEN <<>>
    ELSE IF IsAlnum(Head(s)) THEN <<Head(s)>> \o ReplaceRuns(Tail(s), FALSE)
    ELSE IF inRun THEN ReplaceRuns(Tail(s), TRUE)
    ELSE <<"-">> \o ReplaceRuns(Tail(s), TRUE)

\* Only /^-/ is removed: the hyphen at the end stays.
StripStartOnly(s) == IF s # <<>> /\ Head(s) = "-" THEN Tail(s) ELSE s

\* .replace(/(^-|-$)+/g, ''): a hyphen at the very start and a hyphen at the
\* very end are removed.
StripEnds(s) ==
    LET a == IF s # <<>> /\ Head(s) = "-" THEN Tail(s) ELSE s
    IN  IF a # <<>> /\ a[Len(a)] = "-" THEN SubSeq(a, 1, Len(a) - 1) ELSE a

Fallback == <<"p", "l", "a", "y", "e", "r">>

\* String(input || '')
SlugInput(input) == IF Truthy(input) THEN JsString(input) ELSE <<>>

\* The two replacements of lines 53 and 54 in the other order.
slugifyStripsFirst(input) ==
    LET s == ReplaceRuns(StripEnds(toLowerCase(trim(SlugInput(input)))), FALSE)
    IN  IF s = <<>> THEN Fallback ELSE s

slugify(input) ==
    LET s == StripEnds(ReplaceRuns(toLowerCase(trim(SlugInput(input))), FALSE))
    IN  IF s = <<>> THEN Fallback ELSE s

GITHUB_DIR == <<"s", "a", "v", "e", "s">>

\* `${GITHUB_DIR}/${slug}.json`, lines 100 and 113
PathOf(slug) == GITHUB_DIR \o <<"/">> \o slug \o <<".", "j", "s", "o", "n">>

\* ----- requests the model sends -------------------------------------------
Secret == Str(<<"k">>)
Headers == {Undefined, Secret}   \* req.header('x-api-key'): none, or "k"

Obj(fields) == [t |-> "obj"] @@ fields

\* profile.discord: a text and a number.
Discords == {Str(<<"A", " ", "b">>), Num(0)}

\* Bodies with a profile and a checks: checks an object, and checks a number.
Records ==
    {Obj([profile |-> Obj([discord |-> Str(<<"A", " ", "b">>)]),
          checks |-> Obj([done |-> TRUE])]),
     Obj([profile |-> Obj([discord |-> Num(0)]), checks |-> Num(7)])}

\* ... and bodies without a profile, without a checks, with checks: false.
Malformed == [t |-> "malformed"]   \* a body that is not JSON text
SaveBodies ==
    {Malformed, Undefined}
    \cup Records
    \cup {Obj([profile |-> Undefined, checks |-> Obj([done |-> TRUE])])}
    \cup {Obj([profile |-> Obj([discord |-> Undefined]), checks |-> Undefined])}
    \cup {Obj([profile |-> Obj([discord |-> Str(<<"A", " ", "b">>)]),
                checks |-> Bool(FALSE)])}

\* req.params.slug: Express matches :slug against a non-empty segment.
Slugs == {<<"A", " ", "b">>, <<"a", "-", "b">>, <<"0">>}

Requests ==
    {[kind |-> "health", hdr |-> h] : h \in Headers}
    \cup {[kind |-> "save", hdr |-> h, body |-> b] : h \in Headers, b \in SaveBodies}
    \cup {[kind |-> "load", hdr |-> h, slug |-> Str(s)] : h \in Headers, s \in Slugs}

\* ----- middleware, lines 37-45 --------------------------------------------
Reply(status, body) == [status |-> status, body |-> body]
Error(msg) == [error |-> msg]

\* express.json(), line 37: a POST body that does not parse ends the request
\* with 400 before any later middleware runs.
JsonBodyError(req) == req.kind = "save" /\ req.body.t = "malformed"

\* lines 41-43
Authorised(req) == ~Truthy(API_KEY) \/ req.hdr = API_KEY

\* next(): the request goes on to its route handler.
CallNext == [status |-> 0, next |-> TRUE]

\* The health route registered ahead of the shared-secret middleware.
MiddlewareAfterHealth(req) ==
    IF JsonBodyError(req) THEN Reply(400, Error("Bad Request"))
    ELSE IF req.kind # "health" /\ ~Authorised(req)
    THEN Reply(401, Error("Unauthorized"))
    ELSE CallNext

\* What the middleware chain answers, or CallNext when the route handler runs.
Middleware(req) ==
    IF JsonBodyError(req) THEN Reply(400, Error("Bad Request"))
    ELSE IF ~Authorised(req) THEN Reply(401, Error("Unauthorized"))
    ELSE CallNext

\* ----- content encoding, lines 75 and 116 ---------------------------------
\* JSON.stringify(v, null, 2): the text of v; JSON.parse is its inverse.
Stringify(v) == [t |-> "text", of |-> v]
Parse(text) == text.of
\* Buffer.from(text).toString('base64') and back.
Base64(text) == [t |-> "b64", of |-> text]
FromBase64(b) == b.of

\* line 101
Envelope(profile, checks, now) ==
    Obj([profile |-> profile, checks |-> checks, savedAt |-> now, version |-> 1])

\* ----- the repository content API (GitHub) --------------------------------
Sha(n) == [t |-> "sha", v |-> n]
At(path) == {o \in store : o.path = path}
NetworkError == [status |-> 0]   \* fetch() rejects: the backend was not reached

\* GET /contents/<path>: 404 when no object is there, else its metadata.
BackendGet(path) ==
    IF At(path) = {} THEN [status |-> 404]
    ELSE LET o == CHOOSE o \in At(path) : TRUE
         IN  [status |-> 200, json |-> Obj([sha |-> o.sha, content |-> o.content])]

\* PUT /contents/<path>: a create must carry no token, an overwrite must carry
\* the current one.
PutAccepted(path, body) ==
    IF At(path) = {} THEN "sha" \notin DOMAIN body
    ELSE "sha" \in DOMAIN body /\ \A o \in At(path) : body.sha = o.sha

BackendPut(path, body) ==
    IF PutAccepted(path, body)
    THEN [status |-> IF At(path) = {} THEN 201 ELSE 200,
          json |-> Obj([commit |-> Obj([sha |-> Sha(commits + 1)])])]
    ELSE [status |-> IF At(path) = {} THEN 422 ELSE 409]

\* The shapes the answer to an accepted write can have: with the commit and
\* its identifier, with a commit that has no identifier, without a commit.
BackendPutAnswers(path, body) ==
    LET resp == BackendPut(path, body)
    IN  IF PutAccepted(path, body)
        THEN {resp,
              [status |-> resp.status, json |-> Obj([commit |-> Obj(<<>>)])],
              [status |-> resp.status, json |-> Obj(<<>>)]}
        ELSE {resp}

StoreAfterPut(path, body) ==
    (store \ At(path))
    \cup {[path |-> path, sha |-> Sha(commits + 1), content |-> body.content]}

Faults == {[status |-> 503], NetworkError}

\* ----- githubGetContent, lines 58-64 --------------------------------------
Ok(resp) == resp.status \in 200..299
Throw(msg) == [t |-> "throw", message |-> msg]
Threw(v) == v.t = "throw"

\* githubGetContent without line 61.
githubGetContentThrows404(resp) ==
    IF resp = NetworkError THEN Throw("fetch failed")
    ELSE IF ~Ok(resp) THEN Throw("GitHub GET failed")
    ELSE resp.json

\* Line 62 returning null like line 61: every status that is not a success
\* counts as "no file there".
githubGetContentNullOnError(resp) ==
    IF resp = NetworkError THEN Throw("fetch failed")
    ELSE IF ~Ok(resp) THEN Null
    ELSE resp.json

githubGetContent(resp) ==
    IF resp = NetworkError THEN Throw("fetch failed")
    ELSE IF resp.status = 404 THEN Null
    ELSE IF ~Ok(resp) THEN Throw("GitHub GET failed")
    ELSE resp.json

\* ----- githubUpsertFile, lines 66-90 --------------------------------------
\* The token of the object found is not picked up.
ShaOfNothing(existing) == Null

\* lines 68-70
ShaOf(existing) ==
    IF Truthy(existing) /\ Truthy(existing.sha) THEN existing.sha ELSE Null

\* The body of the PUT with the token left out.
PutBodyWithoutSha(path, contentJson, message, sha) ==
    [message |-> message, content |-> Base64(Stringify(contentJson)), branch |-> "main"]

\* lines 73-78
PutBody(path, contentJson, message, sha) ==
    LET base == [message |-> message,
                 content |-> Base64(Stringify(contentJson)),
                 branch |-> "main"]
    IN  IF Truthy(sha) THEN base @@ [sha |-> sha] ELSE base

\* githubUpsertFile without line 88.
PutResultUnchecked(resp) ==
    IF resp = NetworkError THEN Throw("fetch failed")
    ELSE IF "json" \in DOMAIN resp THEN resp.json
    ELSE Obj(<<>>)

\* lines 88-89
PutResult(resp) ==
    IF resp = NetworkError THEN Throw("fetch failed")
    ELSE IF ~Ok(resp) THEN Throw("GitHub PUT failed")
    ELSE resp.json

\* ----- route handlers -----------------------------------------------------
NoCall == [status |-> 0, none |-> TRUE]   \* no backend response was awaited

\* A response as sent, with the request it answers (the id-th admitted to a
\* backend call, 0 when answered at once), the backend calls that request
\* issued and the backend response it last received.
Sent(id, req, reply, gets, puts, backend) ==
    [id |-> id, req |-> req, status |-> reply.status, body |-> reply.body,
     gets |-> gets, puts |-> puts, backend |-> backend]

Field(obj, name) == IF name \in DOMAIN obj THEN obj[name] ELSE Undefined

\* line 97: const { profile, checks } = req.body || {}
BodyOf(req) == IF Truthy(req.body) THEN req.body ELSE Obj(<<>>)

\* Line 98 testing profile only.
MissingFieldsProfileOnly(req) == ~Truthy(Field(BodyOf(req), "profile"))

\* Line 98 testing for undefined only, not for every falsy value.
MissingFieldsByPresence(req) ==
    Field(BodyOf(req), "profile") = Undefined \/ Field(BodyOf(req), "checks") = Undefined

\* line 98
MissingFields(req) ==
    ~Truthy(Field(BodyOf(req), "profile")) \/ ~Truthy(Field(BodyOf(req), "checks"))

\* line 99-100
SavePath(req) == PathOf(slugify(Field(Field(BodyOf(req), "profile"), "discord")))

\* line 102: `Onboarding save for ${profile.discord || slug}`
SaveMessage(req) ==
    LET d == Field(Field(BodyOf(req), "profile"), "discord")
    IN  IF Truthy(d) THEN JsString(d) ELSE slugify(d)

\* lines 112-113
LoadPath(req) == PathOf(slugify(req.slug))

\* The catch block answering without status(500).
SaveReplyNoStatus(path, result) ==
    IF Threw(result) THEN Reply(200, Error(result.message))
    ELSE LET commit == Field(result, "commit")
         IN  Reply(200, [ok |-> TRUE, path |-> path,
                         commit |-> IF Truthy(commit) /\ Truthy(Field(commit, "sha"))
                                    THEN commit.sha ELSE Null])

\* Line 103 reading result.commit.sha without the ?. guard: a result with no
\* commit raises a TypeError, which the catch block answers.
SaveReplyNeedsCommit(path, result) ==
    IF Threw(result) THEN Reply(500, Error(result.message))
    ELSE IF ~Truthy(Field(result, "commit"))
    THEN Reply(500, Error("Cannot read properties of undefined"))
    ELSE Reply(200, [ok |-> TRUE, path |-> path,
                     commit |-> IF Truthy(Field(result.commit, "sha"))
                                THEN result.commit.sha ELSE Null])

\* lines 103-106: the answer of /save to what githubUpsertFile returned or threw
SaveReply(path, result) ==
    IF Threw(result) THEN Reply(500, Error(result.message))
    ELSE LET commit == Field(result, "commit")
         IN  Reply(200, [ok |-> TRUE, path |-> path,
                         commit |-> IF Truthy(commit) /\ Truthy(Field(commit, "sha"))
                                    THEN commit.sha ELSE Null])

\* The catch block of /load answering 404 like the branch of line 115.
LoadReplyNotFoundOnError(data) ==
    IF Threw(data) THEN Reply(404, Error("Not found"))
    ELSE IF ~Truthy(data) THEN Reply(404, Error("Not found"))
    ELSE Reply(200, FromBase64(data.content))

\* Line 116 left out: the content is sent as the repository encoded it.
LoadReplyUndecoded(data) ==
    IF Threw(data) THEN Reply(500, Error(data.message))
    ELSE IF ~Truthy(data) THEN Reply(404, Error("Not found"))
    ELSE Reply(200, data.content)

\* lines 115-121: the answer of /load to what githubGetContent returned or threw
LoadReply(data) ==
    IF Threw(data) THEN Reply(500, Error(data.message))
    ELSE IF ~Truthy(data) THEN Reply(404, Error("Not found"))
    ELSE Reply(200, FromBase64(data.content))

\* A compare-and-swap loop: a failed upsert is started once more.
RetryAfterFailure(r) ==
    IF r.gets < 2
    THEN {[id |-> r.id, req |-> r.req, pc |-> "get", path |-> r.path,
           payload |-> r.payload, gets |-> r.gets + 1, puts |-> r.puts]}
    ELSE {}

\* A catch block that logs the error and sends nothing: the request stays
\* open.
HangAfterFailure(r) == {[r EXCEPT !.pc = "caught"]}

\* lines 104-107: the catch block answers; the request is not started again.
AfterFailure(r) == {}

\* What a route handler keeps of the request across its awaits: the header is
\* read by the middleware only.
Handled(req) == [f \in DOMAIN req \ {"hdr"} |-> req[f]]

\* new Date(), line 101: a logical clock that ticks with every request that
\* gets past validation; it also numbers those requests.
Now == admitted + 1

\* GET /health, line 93, behind the middleware.
Health(req) ==
    /\ received < MaxRequests /\ received' = received + 1
    /\ req.kind = "health"
    /\ last' = Sent(0, req, IF Middleware(req) # CallNext THEN Middleware(req)
                         ELSE Reply(200, [ok |-> TRUE]), 0, 0, NoCall)
    /\ UNCHANGED <<API_KEY, store, commits, admitted, inflight>>
    /\ UNCHANGED normaliser

\* POST /save, lines 95-102, up to the await of the GET in githubGetContent.
Save(req) ==
    /\ received < MaxRequests /\ received' = received + 1
    /\ req.kind = "save"
    /\ IF Middleware(req) # CallNext
       THEN /\ last' = Sent(0, req, Middleware(req), 0, 0, NoCall)
            /\ UNCHANGED <<admitted, inflight>>
       ELSE IF MissingFields(req)
       THEN /\ last' = Sent(0, req, Reply(400, Error("Missing profile or checks")),
                            0, 0, NoCall)
            /\ UNCHANGED <<admitted, inflight>>
       ELSE /\ Cardinality(inflight) < MaxInFlight
            /\ admitted' = Now
            /\ inflight' = inflight \cup
                 {[id |-> Now, req |-> Handled(req), pc |-> "get",
                   path |-> SavePath(req),
                   payload |-> Envelope(BodyOf(req).profile, BodyOf(req).checks, Now),
                   gets |-> 1, puts |-> 0]}
            /\ UNCHANGED last
    /\ UNCHANGED <<API_KEY, store, commits>>
    /\ UNCHANGED normaliser

\* GET /load/:slug, lines 110-114, up to the await of the GET.
Load(req) ==
    /\ received < MaxRequests /\ received' = received + 1
    /\ req.kind = "load"
    /\ IF Middleware(req) # CallNext
       THEN /\ last' = Sent(0, req, Middleware(req), 0, 0, NoCall)
            /\ UNCHANGED <<admitted, inflight>>
       ELSE /\ Cardinality(inflight) < MaxInFlight
            /\ admitted' = Now
            /\ inflight' = inflight \cup
                 {[id |-> Now, req |-> Handled(req), pc |-> "get",
                   path |-> LoadPath(req), gets |-> 1, puts |-> 0]}
            /\ UNCHANGED last
    /\ UNCHANGED <<API_KEY, store, commits>>
    /\ UNCHANGED normaliser

\* A load that reads a second time when its first read failed.
LoadGotRetries(r) ==
    /\ r.req.kind = "load" /\ r.pc = "get"
    /\ \E resp \in {BackendGet(r.path)} \cup Faults :
         IF Threw(githubGetContent(resp)) /\ r.gets < 2
         THEN /\ inflight' = (inflight \ {r}) \cup {[r EXCEPT !.gets = r.gets + 1]}
              /\ UNCHANGED last
         ELSE /\ inflight' = inflight \ {r}
              /\ last' = Sent(r.id, r.req, LoadReply(githubGetContent(resp)),
                              r.gets, r.puts, resp)
    /\ UNCHANGED <<received, API_KEY, store, commits, admitted>>
    /\ UNCHANGED normaliser

\* The GET of a load returns (or fails): lines 60-63 and 115-121.
LoadGot(r) ==
    /\ r.req.kind = "load" /\ r.pc = "get"
    /\ \E resp \in {BackendGet(r.path)} \cup Faults :
         last' = Sent(r.id, r.req, LoadReply(githubGetContent(resp)),
                      r.gets, r.puts, resp)
    /\ inflight' = inflight \ {r}
    /\ UNCHANGED <<received, API_KEY, store, commits, admitted>>
    /\ UNCHANGED normaliser

\* The GET of a save returns (or fails): lines 60-63, 69-87; the PUT is sent
\* unless the GET threw.
SaveGot(r) ==
    /\ r.req.kind = "save" /\ r.pc = "get"
    /\ \E resp \in {BackendGet(r.path)} \cup Faults :
         LET existing == githubGetContent(resp)
         IN  IF Threw(existing)
             THEN /\ inflight' = (inflight \ {r}) \cup AfterFailure(r)
                  /\ last' = Sent(r.id, r.req, SaveReply(r.path, existing),
                                  r.gets, r.puts, resp)
             ELSE /\ inflight' = (inflight \ {r}) \cup
                        {[r EXCEPT !.pc = "put", !.puts = r.puts + 1]
                           @@ [got |-> resp, existing |-> existing,
                               body |-> PutBody(r.path, r.payload, SaveMessage(r.req),
                                                ShaOf(existing))]}
                  /\ UNCHANGED last
    /\ UNCHANGED <<received, API_KEY, store, commits, admitted>>
    /\ UNCHANGED normaliser

\* The PUT of a save returns (or fails): lines 88-89 and 103-106.  The
\* repository applies an accepted write when it answers.
SavePut(r) ==
    /\ r.req.kind = "save" /\ r.pc = "put"
    /\ \E resp \in BackendPutAnswers(r.path, r.body) \cup Faults :
         /\ IF Ok(resp)
            THEN /\ store' = StoreAfterPut(r.path, r.body)
                 /\ commits' = commits + 1
            ELSE UNCHANGED <<store, commits>>
         /\ inflight' = (inflight \ {r})
                        \cup (IF Threw(PutResult(resp)) THEN AfterFailure(r) ELSE {})
         /\ last' = Sent(r.id, r.req, SaveReply(r.path, PutResult(resp)),
                         r.gets, r.puts, resp)
    /\ UNCHANGED <<received, API_KEY, admitted>>
    /\ UNCHANGED normaliser

NoResponse == [id |-> 0, status |-> 0]

Init ==
    /\ API_KEY \in {Str(<<>>), Secret, Str(<<"z">>)}
    /\ store = {}
    /\ received = 0
    /\ commits = 0
    /\ admitted = 0
    /\ inflight = {}
    /\ last = NoResponse
    /\ given = Undefined
    /\ key = slugify(given)

Next ==
    \/ \E req \in Requests : Health(req)
    \/ \E req \in Requests : Save(req)
    \/ \E req \in Requests : Load(req)
    \/ \E r \in inflight : LoadGot(r)
    \/ \E r \in inflight : SaveGot(r)
    \/ \E r \in inflight : SavePut(r)

Spec == Init /\ [][Next]_vars

\* The backend call that the n-th admitted request awaits returns or fails.
Returns(n) ==
    \E r \in inflight : r.id = n /\ (LoadGot(r) \/ SaveGot(r) \/ SavePut(r))

\* One request of each kind, sent with the key "k": a health check, a save
\* of a record, a save with no body and a load of the record's key.
Callers ==
    {req \in Requests :
        /\ req.hdr = Secret
        /\ req.kind = "save" =>
              req.body \in {Undefined, Obj([profile |-> Obj([discord |-> Str(<<"A", " ", "b">>)]),
                                            checks |-> Obj([done |-> TRUE])])}
        /\ req.kind = "load" => req.slug = Str(<<"a", "-", "b">>)}

FairNext ==
    \/ \E req \in Callers : Health(req)
    \/ \E req \in Callers : Save(req)
    \/ \E req \in Callers : Load(req)
    \/ \E r \in inflight : LoadGot(r)
    \/ \E r \in inflight : SaveGot(r)
    \/ \E r \in inflight : SavePut(r)

\* The server under the assumption that every backend call eventually
\* returns a status or fails: node-fetch settles the promise of lines 60 and
\* 79 and the event loop resumes the handler that awaits it.
FairSpec == Init /\ [][FairNext]_vars /\ \A n \in 1..MaxRequests : WF_vars(Returns(n))

\* ----- the key normaliser on its own --------------------------------------
\* The characters of the texts: a capital, a small letter, a digit, a hyphen,
\* a blank and another character the keys do not allow.
Alphabet == {"A", "b", "0", "-", " ", "_"}

\* The JSON values profile.discord can hold other than a non-empty text, and
\* no value at all.
Fields == {Str(<<>>), Undefined, Null, Num(0), Num(7), Bool(FALSE), Bool(TRUE)}

\* slugify(input), lines 51-56, called with a value.
CallSlugify(input) ==
    /\ given' = input
    /\ key' = slugify(input)
    /\ UNCHANGED server

\* slugify called with the text last given and one more character.
CallSlugifyLonger(c) ==
    /\ given.t = "str" /\ Len(given.v) < MaxLen
    /\ given' = Str(Append(given.v, c))
    /\ key' = slugify(Str(Append(given.v, c)))
    /\ UNCHANGED server

\* slugify called with the key it returned last.
Renormalise ==
    /\ given' = Str(key)
    /\ key' = slugify(Str(key))
    /\ UNCHANGED server

SlugNext ==
    \/ \E input \in Fields : CallSlugify(input)
    \/ \E c \in Alphabet : CallSlugifyLonger(c)
    \/ Renormalise

SlugSpec == Init /\ [][SlugNext]_vars

\* ----- properties ---------------------------------------------------------
IsSave(r) == r.req.kind = "save"
IsLoad(r) == r.req.kind = "load"
HasSent == last # NoResponse

\* The step in which request r is answered and leaves the server.
Answers(r) == r \in inflight /\ last'.id = r.id /\ \A q \in inflight' : q.id # r.id

\* The envelope stored in a repository object.
Stored(o) == Parse(FromBase64(o.content))

\* The path segment a client puts in GET /load/<d> for an identifying field d.
UrlOf(d) == Str(JsString(d))

\* C1: round trip.  When a save with identifying field d has answered 200 and
\* nothing else has been written under its key since, then GET /load/<d>,
\* its backend read being answered, answers 200 with an envelope whose
\* profile and checks are the ones saved.
RoundTrip ==
    [][ /\ \A r \in inflight :
             (IsSave(r) /\ Answers(r) /\ last'.status = 200) =>
                \E o \in store' :
                    /\ o.path = SavePath(r.req)
                    /\ Stored(o).profile = r.req.body.profile
                    /\ Stored(o).checks = r.req.body.checks
        /\ \A r \in inflight : \A d \in Discords :
             (IsLoad(r) /\ Answers(r) /\ last'.backend \notin Faults
                /\ r.req.slug = UrlOf(d)) =>
                \A o \in At(PathOf(slugify(d))) :
                    Stored(o).profile.discord = d =>
                        /\ last'.status = 200
                        /\ Parse(last'.body).profile = Stored(o).profile
                        /\ Parse(last'.body).checks = Stored(o).checks ]_vars

\* The round trip of C1 for identifying fields that are non-empty texts.
RoundTripOfText ==
    [][ \A r \in inflight : \A d \in {x \in Discords : x.t = "str"} :
             (IsLoad(r) /\ Answers(r) /\ last'.backend \notin Faults
                /\ r.req.slug = UrlOf(d)) =>
                \A o \in At(PathOf(slugify(d))) :
                    Stored(o).profile.discord = d =>
                        /\ last'.status = 200
                        /\ Parse(last'.body).profile = Stored(o).profile
                        /\ Parse(last'.body).checks = Stored(o).checks ]_vars

SavedThenLoaded ==
    /\ HasSent /\ last.req.kind = "load" /\ last.status = 200
    /\ \E o \in store : Parse(last.body) = Stored(o)

\* What request r, awaiting its PUT, would be told by the repository now.
Current(r) == \A o \in At(r.path) : Truthy(r.existing) /\ o.sha = r.existing.sha
AwaitsPut(r) == IsSave(r) /\ r.pc = "put"

\* C2: overwrite, not duplicate.  A save whose Fetch found the object an
\* earlier save left under the same key, that object still being the current
\* one, is answered 200 once the repository answers its write; the
\* repository then holds one object under that key, with this save's envelope,
\* no path ever holds two objects, and a load answered from the repository
\* returns the content of the one object there.
Overwrite ==
    /\ [](\A o1, o2 \in store : o1.path = o2.path => o1 = o2)
    /\ [][ /\ \A r \in inflight :
                (AwaitsPut(r) /\ Answers(r) /\ At(r.path) # {} /\ Current(r)
                   /\ last'.backend \notin Faults) =>
                   /\ last'.status = 200
                   /\ {o \in store' : o.path = r.path}
                        = {[path |-> r.path, sha |-> Sha(commits'),
                            content |-> Base64(Stringify(r.payload))]}
           /\ \A r \in inflight :
                (IsLoad(r) /\ Answers(r) /\ last'.backend \notin Faults) =>
                   \A o \in At(r.path) :
                      last'.status = 200 /\ last'.body = FromBase64(o.content) ]_vars

Overwritten ==
    /\ HasSent /\ last.req.kind = "save" /\ last.status = 200
    /\ last.backend.status = 200
    /\ \E o \in store : Stored(o).savedAt > 1 /\ last.body.path = o.path

\* C3: contention.  Of two saves of one key that have both fetched and not
\* yet written, a write accepted for one leaves the other with a write the
\* repository rejects, from then on; a save whose write the repository does
\* not accept answers 500 and changes nothing; and a save that answers 200
\* replaced exactly the version its own Fetch returned.
Contention ==
    [][ /\ \A r, q \in inflight :
             (AwaitsPut(r) /\ AwaitsPut(q) /\ r # q /\ r.path = q.path
                /\ Answers(r) /\ store' # store) =>
                /\ q \in inflight'
                /\ \E o \in store' : o.path = q.path /\
                      ("sha" \notin DOMAIN q.body \/ q.body.sha # o.sha)
        /\ \A q \in inflight :
             (AwaitsPut(q) /\ q \in inflight' /\ ~PutAccepted(q.path, q.body)) =>
                \E o \in store' : o.path = q.path /\
                      ("sha" \notin DOMAIN q.body \/ q.body.sha # o.sha)
        /\ \A q \in inflight :
             (AwaitsPut(q) /\ Answers(q) /\ ~PutAccepted(q.path, q.body)) =>
                last'.status = 500 /\ store' = store
        /\ \A r \in inflight :
             (AwaitsPut(r) /\ Answers(r) /\ last'.status = 200) =>
                IF Truthy(r.existing)
                THEN At(r.path) = {[path |-> r.path, sha |-> r.existing.sha,
                                    content |-> r.existing.content]}
                ELSE At(r.path) = {} ]_vars

LostTheRace ==
    /\ HasSent /\ last.req.kind = "save" /\ last.status = 500
    /\ last.backend.status \in {409, 422}

\* C4: the write of an upsert carries a version token exactly when the Fetch
\* of the same request found an object, and then it is the token that Fetch
\* returned.
TokenPassedThrough ==
    \A r \in inflight :
        AwaitsPut(r) =>
            /\ ("sha" \in DOMAIN r.body) <=> Truthy(r.existing)
            /\ "sha" \in DOMAIN r.body => r.body.sha = r.existing.sha

WriteCarriesToken ==
    \E r \in inflight : AwaitsPut(r) /\ "sha" \in DOMAIN r.body

\* A response sent by the middleware or by the synchronous part of a handler:
\* it still holds the whole request, header included.
SentAtOnce == HasSent /\ "hdr" \in DOMAIN last.req
KeyRejected(req) == API_KEY # Str(<<>>) /\ req.hdr # API_KEY

\* C5: with a shared secret configured, every request whose x-api-key is
\* missing or different is answered 401 and issues no backend call, and no
\* request awaiting the backend got there without the key.
UnauthorisedIs401 ==
    SentAtOnce /\ KeyRejected(last.req) =>
        last.status = 401 /\ last.gets = 0 /\ last.puts = 0

\* C6 as stated: every GET /health is answered 200 {ok:true} with no backend
\* call, in every configuration and whatever its headers.
HealthAlwaysOk ==
    HasSent /\ last.req.kind = "health" =>
        last.status = 200 /\ last.body = [ok |-> TRUE] /\ last.gets = 0 /\ last.puts = 0

\* C6, amended: GET /health makes no backend call; it is answered
\* 200 {ok:true} when no secret is configured or its x-api-key equals the
\* secret, and 401 otherwise.
HealthBehindKey ==
    HasSent /\ last.req.kind = "health" =>
        /\ last.gets = 0 /\ last.puts = 0
        /\ IF KeyRejected(last.req)
           THEN last.status = 401
           ELSE last.status = 200 /\ last.body = [ok |-> TRUE]

HealthAnswered == HasSent /\ last.req.kind = "health" /\ last.status = 200
    /\ API_KEY = Secret

\* The body of a save names no profile, or no checks.
Omits(req) ==
    \/ req.body = Undefined
    \/ /\ req.body.t = "obj"
       /\ \/ "profile" \notin DOMAIN req.body \/ req.body.profile = Undefined
          \/ "checks" \notin DOMAIN req.body \/ req.body.checks = Undefined

\* C7: a save that reaches the handler with profile or checks omitted is
\* answered 400 and issues no backend call: no such save ever awaits the
\* backend, and the step that answers it leaves the repository as it was.
OmissionIs400 ==
    /\ [](/\ (SentAtOnce /\ last.req.kind = "save" /\ ~KeyRejected(last.req)
                /\ Omits(last.req)) =>
                last.status = 400 /\ last.gets = 0 /\ last.puts = 0
          /\ \A r \in inflight : IsSave(r) => ~Omits(r.req))
    /\ [][(received' # received /\ inflight' = inflight /\ last'.id = 0
             /\ last'.req.kind = "save" /\ Omits(last'.req)) =>
             store' = store]_vars

OmissionAnswered ==
    /\ SentAtOnce /\ last.req.kind = "save" /\ last.status = 400
    /\ last.req.body # Undefined /\ last.req.body.t = "obj"
    /\ last.req.body.profile = Undefined

\* C8: a load for whose path the repository reports not-found answers 404.
AbsentIs404 ==
    HasSent /\ last.req.kind = "load" /\ last.backend.status = 404 =>
        last.status = 404

AbsentLoaded ==
    HasSent /\ last.req.kind = "load" /\ last.status = 404 /\ last.gets = 1

\* C9: no retry.  A save that passes validation issues one Fetch and at most
\* one write: requests awaiting the backend have issued one Fetch and, past
\* it, one write; answered saves issued at most that; and a save whose Fetch
\* or write the repository has answered leaves the server in that step, with
\* 500 when the write was not accepted.
NoRetry ==
    /\ [](/\ \A r \in inflight :
                r.gets = 1 /\ r.puts = (IF r.pc = "put" THEN 1 ELSE 0)
          /\ (HasSent /\ last.req.kind = "save") =>
                /\ last.gets <= 1 /\ last.puts <= last.gets
                /\ last.status \notin {400, 401} => last.gets = 1
                /\ last.status = 200 => last.puts = 1)
    /\ [][\A r \in inflight :
            (AwaitsPut(r) /\ r \notin inflight') =>
                /\ Answers(r)
                /\ ~Ok(last'.backend) => last'.status = 500]_vars

WriteRejected ==
    /\ HasSent /\ last.req.kind = "save" /\ last.puts = 1
    /\ ~Ok(last.backend) /\ last.status = 500 /\ inflight = {}

\* C10: when the write of a save fails after its Fetch succeeded, the
\* repository is left exactly as it was before the write and the request
\* answers 500.
FailedWriteChangesNothing ==
    [][\A r \in inflight :
         (AwaitsPut(r) /\ Answers(r) /\ ~Ok(last'.backend)) =>
             store' = store /\ commits' = commits /\ last'.status = 500]_vars

WriteFailedOverObject ==
    /\ HasSent /\ last.req.kind = "save" /\ last.puts = 1 /\ last.status = 500
    /\ store # {}

\* C14: a write the repository accepted whose answer carries no commit
\* identifier is not a failure.  A save whose write is answered with a
\* success status answers 200 {ok: true, path, commit}, where commit is the
\* identifier in the answer, and null when the answer has none.
CommitOptional ==
    [][\A r \in inflight :
         (AwaitsPut(r) /\ Answers(r) /\ Ok(last'.backend)) =>
             /\ last'.status = 200
             /\ last'.body.ok = TRUE /\ last'.body.path = SavePath(r.req)
             /\ last'.body.commit =
                  (IF "commit" \in DOMAIN last'.backend.json
                      /\ "sha" \in DOMAIN last'.backend.json.commit
                   THEN last'.backend.json.commit.sha ELSE Null)]_vars

SavedWithoutCommit ==
    /\ HasSent /\ last.req.kind = "save" /\ last.status = 200
    /\ last.body.commit = Null /\ "commit" \notin DOMAIN last.backend.json

\* C15: nothing is ever deleted.  No step leaves a path without an object
\* that had one; when a save answers 200 there is an object at its path; and
\* a load of a path that has an object never answers 404.
NeverDeleted ==
    [][ /\ \A o \in store : \E p \in store' : p.path = o.path
        /\ \A r \in inflight :
             (IsSave(r) /\ Answers(r) /\ last'.status = 200) =>
                \E p \in store' : p.path = SavePath(r.req)
        /\ \A r \in inflight :
             (IsLoad(r) /\ Answers(r) /\ At(LoadPath(r.req)) # {}) =>
                last'.status # 404 ]_vars

StillThere ==
    /\ HasSent /\ last.req.kind = "load" /\ last.status = 200
    /\ commits = 2 /\ Cardinality(store) = 1

\* C16: a load answers by the outcome of its backend read: 200 with the
\* decoded content when the read succeeds, 404 when the repository reports
\* not-found, and 500 for every other status and for a transport failure.
LoadOutcome ==
    (HasSent /\ last.req.kind = "load" /\ last.gets = 1) =>
        IF Ok(last.backend)
        THEN last.status = 200 /\ last.body = FromBase64(last.backend.json.content)
        ELSE IF last.backend.status = 404 THEN last.status = 404
        ELSE last.status = 500

LoadFailed ==
    /\ HasSent /\ last.req.kind = "load" /\ last.status = 500
    /\ last.backend.status = 503 /\ At(LoadPath(last.req)) # {}

\* C17: a save whose Fetch fails (a status that is neither a success nor
\* not-found, or a transport failure) issues no write: it answers 500 in the
\* step its Fetch returns, having made one read and no write, and leaves the
\* repository as it was; and every save that has issued its write did so on
\* a Fetch that succeeded or reported not-found.
FailedFetchWritesNothing ==
    /\ [](\A r \in inflight :
             AwaitsPut(r) => Ok(r.got) \/ r.got.status = 404)
    /\ [][\A r \in inflight :
             (IsSave(r) /\ r.pc = "get" /\ Answers(r)) =>
                 /\ last'.backend \in Faults
                 /\ last'.status = 500 /\ last'.gets = 1 /\ last'.puts = 0
                 /\ store' = store /\ commits' = commits]_vars

FetchFailed ==
    /\ HasSent /\ last.req.kind = "save" /\ last.status = 500
    /\ last.puts = 0 /\ last.backend \in Faults /\ At(SavePath(last.req)) # {}

\* The body of a save is a JSON object that holds a profile and a checks.
Present(req) ==
    /\ req.body.t = "obj"
    /\ "profile" \in DOMAIN req.body /\ req.body.profile # Undefined
    /\ "checks" \in DOMAIN req.body /\ req.body.checks # Undefined

\* ... and both are truthy: neither null, false, 0 nor "".
BothTruthy(req) ==
    Present(req) /\ Truthy(req.body.profile) /\ Truthy(req.body.checks)

\* C18 as stated: a save whose body holds a profile and a checks, whatever
\* their values, is not answered 400.
PresenceOnly ==
    (SentAtOnce /\ last.req.kind = "save" /\ Present(last.req)) =>
        last.status # 400

\* C18, amended: a save whose body holds a profile and a checks that are
\* both truthy, whatever else their values, is not answered 400 and goes on
\* to the Fetch of Upsert, unless the key check answers it 401; a save that
\* passes the key check with a profile or a checks that is null, false, 0
\* or "" is answered 400 with no backend call.
TruthyOnly ==
    /\ (SentAtOnce /\ last.req.kind = "save" /\ BothTruthy(last.req)) =>
           last.status = 401 /\ KeyRejected(last.req)
    /\ (SentAtOnce /\ last.req.kind = "save" /\ ~KeyRejected(last.req)
           /\ Present(last.req) /\ ~BothTruthy(last.req)) =>
           last.status = 400 /\ last.gets = 0 /\ last.puts = 0
    /\ \A r \in inflight : IsSave(r) => BothTruthy(r.req) /\ r.gets = 1

NonObjectsSaved ==
    \E r \in inflight :
        IsSave(r) /\ r.req.body.profile.t = "obj" /\ r.req.body.checks.t = "num"

\* C19: load is read-only.  A load that reaches its handler issues one
\* backend read and no write, whether it answers 200, 404 or 500, and
\* neither the step that receives it nor the step that answers it changes an
\* object of the repository or its version token.
ReadOnlyLoad ==
    /\ [](/\ \A r \in inflight :
                IsLoad(r) => r.pc = "get" /\ r.gets = 1 /\ r.puts = 0
          /\ (HasSent /\ last.req.kind = "load" /\ last.status \in {200, 404, 500}) =>
                last.gets = 1 /\ last.puts = 0)
    /\ [][ /\ (\E r \in inflight' \ inflight : IsLoad(r)) =>
                store' = store /\ commits' = commits
           /\ \A r \in inflight :
                (IsLoad(r) /\ r \notin inflight') =>
                    Answers(r) /\ store' = store /\ commits' = commits ]_vars

LoadedBesideObject ==
    /\ HasSent /\ last.req.kind = "load" /\ last.status = 404 /\ store # {}

\* The statuses of each route.
StatusesOf(kind) ==
    CASE kind = "save" -> {200, 400, 401, 500}
      [] kind = "load" -> {200, 401, 404, 500}
      [] OTHER -> {200, 401}

\* C20: every request receives exactly one response.  A request is answered
\* in the step that receives it or admitted to one backend call, never both;
\* a request leaves the server only in a step that sends its response, with
\* a status of its route; a response is sent only to a request then open,
\* which is open no more afterwards, under a number no later request gets;
\* and every request awaiting the backend is eventually answered.
ExactlyOneResponse ==
    /\ [](/\ \A r, q \in inflight : r.id = q.id => r = q
          /\ \A r \in inflight : r.id \in 1..admitted /\ r.pc \in {"get", "put"}
          /\ HasSent => /\ last.status \in StatusesOf(last.req.kind)
                         /\ \A r \in inflight : r.id # last.id)
    /\ [][ /\ received' # received =>
                \/ /\ last'.id = 0 /\ inflight' = inflight /\ admitted' = admitted
                \/ /\ last' = last /\ admitted' = admitted + 1
                   /\ \E r \in inflight' :
                        r.id = admitted' /\ inflight' = inflight \cup {r}
           /\ \A r \in inflight :
                r \notin inflight' =>
                    \/ Answers(r) /\ last'.req = r.req
                    \/ \E q \in inflight' : q.id = r.id /\ last' = last
           /\ (last' # last /\ last'.id # 0) =>
                \E r \in inflight : Answers(r) ]_vars
    /\ \A n \in 1..MaxRequests :
          (\E r \in inflight : r.id = n) ~> (last.id = n /\ \A r \in inflight : r.id # n)

AllAnswered ==
    /\ received = MaxRequests /\ admitted >= 2 /\ inflight = {}
    /\ HasSent /\ last.id = admitted

\* ----- properties of the key normaliser (SlugSpec) ------------------------
\* C11: key normalisation is idempotent.  Whenever slugify is called with a
\* key it has just returned, the fallback token included, it returns that
\* key again.
Idempotent == [][given' = Str(key) => key' = key]_vars

Renormalised == given = Str(Fallback) /\ key = Fallback

\* ^[a-z0-9]+(-[a-z0-9]+)*$
MatchesKey(s) ==
    /\ s # <<>>
    /\ \A i \in DOMAIN s : IsAlnum(s[i]) \/ s[i] = "-"
    /\ s[1] # "-" /\ s[Len(s)] # "-"
    /\ \A i \in 1..(Len(s) - 1) : ~(s[i] = "-" /\ s[i + 1] = "-")

\* C12: whatever it is given, slugify returns a non-empty key that matches
\* ^[a-z0-9]+(-[a-z0-9]+)*$ or is the fallback token.
WellFormedKey == MatchesKey(key) \/ key = Fallback

KeyOfSeparators == given = Str(<<"-", "b", "_">>) /\ key = <<"b">>

\* The requests a client makes for an identifying field d.
SaveOf(d) ==
    [kind |-> "save",
     body |-> Obj([profile |-> Obj([discord |-> d]), checks |-> Obj([done |-> TRUE])])]
LoadOf(slug) == [kind |-> "load", slug |-> slug]

\* C13: for every identifying field d (a text, a number or a boolean), the
\* path a save with profile.discord = d writes is the path GET /load/<d>
\* reads, and the path GET /load/<key of d> reads, and it is
\* <directory>/<key of d>.json.
SamePath ==
    given.t \in {"str", "num", "bool"} =>
        /\ SavePath(SaveOf(given)) = LoadPath(LoadOf(UrlOf(given)))
        /\ SavePath(SaveOf(given)) = LoadPath(LoadOf(Str(key)))
        /\ SavePath(SaveOf(given)) = PathOf(key)

\* The statement of C13 for identifying fields that are texts.
SamePathOfText ==
    given.t = "str" =>
        /\ SavePath(SaveOf(given)) = LoadPath(LoadOf(UrlOf(given)))
        /\ SavePath(SaveOf(given)) = LoadPath(LoadOf(Str(key)))
        /\ SavePath(SaveOf(given)) = PathOf(key)

====
